---- MODULE Spec2Model ----
(***************************************************************************)
(* Model of gosmart's api.go: the SmartThings session, its Devices slice,  *)
(* the per-device attribute cache guarded by Device.mu, the attribute      *)
(* normaliser inside Device.Refresh and the command dispatcher Device.Call.*)
(*                                                                         *)
(* Go objects with identity are kept in two heaps: `dev` holds Device      *)
(* structs (elements of slice backing arrays and the loop-local nd), and   *)
(* `maps` holds map[string]float64 objects.  A device's `attributes` field *)
(* is a reference into `maps`.  float64 values are modelled by integers.   *)
(* Name and DisplayName are carried by no claim and are left out.          *)
(***************************************************************************)
EXTENDS Integers, Sequences, FiniteSets, TLC

\* ---------------------------------------------------------------- bounds
MaxDevices == 2
MaxCommands == 3
NumLocs == 8
NumMaps == 8

\* Thread 1 is the program's main thread, the one that calls Connect.
Threads == {1, 2, 3}
Locs == 1..NumLocs
MapIds == 1..NumMaps

\* ------------------------------------------------------------ value sets
DevIDs == {"d1", "d2", "d3"}
CmdNames == {"on", "off", "setLevel"}
CallNames == {"on", "off"}
Keys == {"switch", "level", "flag"}

ErrNone == "none"
ErrNetwork == "network error"
ErrDecode == "decode error"
ErrUnavailable == "unavailable command"
ErrTooMany == "too many arguments"
ErrAuth == "auth error"

RECURSIVE SeqsUpTo(_, _)
SeqsUpTo(S, n) ==
  IF n = 0 THEN {<<>>}
  ELSE LET shorter == SeqsUpTo(S, n - 1)
       IN shorter \cup {Append(s, x) : s \in {q \in shorter : Len(q) = n - 1}, x \in S}

Range(s) == {s[i] : i \in 1..Len(s)}

\* --------------------------------------------------- wire format (JSON)
\* A JSON scalar as it appears in the "attributes" object of a device
\* detail document.
WNum(n) == [kind |-> "number", num |-> n, str |-> ""]
WStr(s) == [kind |-> "string", num |-> 0, str |-> s]
WBool == [kind |-> "bool", num |-> 0, str |-> ""]
WNull == [kind |-> "null", num |-> 0, str |-> ""]

WireScalars == {WNum(0), WNum(42), WStr("on"), WStr("present"), WStr("off"), WBool, WNull}

\* encoding/json stores a JSON value decoded into interface{} as float64
\* (number), string, bool or nil.
UnmarshalValue(w) ==
  CASE w.kind = "number" -> [type |-> "float64", num |-> w.num, str |-> ""]
    [] w.kind = "string" -> [type |-> "string", num |-> 0, str |-> w.str]
    [] w.kind = "bool" -> [type |-> "bool", num |-> 0, str |-> ""]
    [] OTHER -> [type |-> "nil", num |-> 0, str |-> ""]

\* DeviceInfo.Attributes after json.Unmarshal of the detail document.
UnmarshalAttributes(wattrs) == [k \in DOMAIN wattrs |-> UnmarshalValue(wattrs[k])]

\* All attribute objects over Keys.
AllWireAttrs == UNION {[ks -> WireScalars] : ks \in SUBSET Keys}

EmptyMap == [k \in {} |-> 0]

DetailOn == [k \in Keys |-> CASE k = "switch" -> WStr("on") [] k = "level" -> WNum(42) [] OTHER -> WBool]
DetailOff == [k \in {"switch", "level"} |-> IF k = "switch" THEN WStr("off") ELSE WNum(0)]

\* Attribute objects the service answers with in the concurrent model.
WireAttrs == {DetailOn, DetailOff}

\* Details that lack, or give an unhandled type to, keys DetailOn has.
DetailLevelOnly == [k \in {"level"} |-> WNum(7)]
DetailUnhandled == [k \in {"switch", "flag"} |-> IF k = "switch" THEN WNull ELSE WStr("present")]
ReplaceWires == {DetailOn, DetailLevelOnly, DetailUnhandled}

\* Transport + decode outcomes of one GET.
RespStatus == {ErrNone, ErrNetwork, ErrDecode}


\* ------------------------------------------------------- pure functions
\* SmartThings.Refresh, the loop over dcs: a name already in cmds is
\* skipped, any other name is appended and recorded in cmds.
RECURSIVE DedupLoop(_, _, _, _)
DedupLoop(dcs, i, cmds, commands) ==
  IF i > Len(dcs) THEN commands
  ELSE IF dcs[i] \in cmds THEN DedupLoop(dcs, i + 1, cmds, commands)
       ELSE DedupLoop(dcs, i + 1, cmds \cup {dcs[i]}, Append(commands, dcs[i]))

\* The loop without its `if cmds[dc.Command] { continue }`.
DedupCommandsKeepAll(dcs) == dcs

DedupCommands(dcs) == DedupLoop(dcs, 1, {}, <<>>)

\* m[k] = x on a Go map.
MapSet(m, k, x) == [kk \in (DOMAIN m) \cup {k} |-> IF kk = k THEN x ELSE m[kk]]

\* delete(m, k) on a Go map.
MapDelete(m, k) == [kk \in (DOMAIN m) \ {k} |-> m[kk]]

\* m[k] read on a Go map: the zero value when the key is absent.
MapGet(m, k) == IF k \in DOMAIN m THEN m[k] ELSE 0

\* The type switch with a default case that stores 0 instead of dropping the key.
NormalizeIntoDefaultZero(m, k, v) ==
  CASE v.type = "float64" -> MapSet(m, k, v.num)
    [] v.type = "string" -> IF v.str = "on" \/ v.str = "present"
                            THEN MapSet(m, k, 1)
                            ELSE MapSet(m, k, 0)
    [] OTHER -> MapSet(m, k, 0)

\* Device.Refresh, one iteration of the type switch over detail.Attributes.
NormalizeInto(m, k, v) ==
  CASE v.type = "float64" -> MapSet(m, k, v.num)
    [] v.type = "string" -> IF v.str = "on" \/ v.str = "present"
                            THEN MapSet(m, k, 1)
                            ELSE MapSet(m, k, 0)
    [] OTHER -> m

\* Device.Refresh, the whole loop (Go iterates the map in some order).
RECURSIVE NormalizeLoop(_, _, _)
NormalizeLoop(attrs, ks, m) ==
  IF ks = {} THEN m
  ELSE LET k == CHOOSE x \in ks : TRUE
       IN NormalizeLoop(attrs, ks \ {k}, NormalizeInto(m, k, attrs[k]))

NormalizeAll(attrs) == NormalizeLoop(attrs, DOMAIN attrs, EmptyMap)

\* Device.HasCommand: linear search of d.Commands.
RECURSIVE HasCommandFrom(_, _, _)
HasCommandFrom(commands, cmd, i) ==
  IF i > Len(commands) THEN FALSE
  ELSE IF commands[i] = cmd THEN TRUE
       ELSE HasCommandFrom(commands, cmd, i + 1)

HasCommand(commands, cmd) == HasCommandFrom(commands, cmd, 1)

\* Device.Call, the loop that sets `found`.
RECURSIVE CallFoundFrom(_, _, _, _)
CallFoundFrom(commands, cmd, i, found) ==
  IF i > Len(commands) THEN found
  ELSE CallFoundFrom(commands, cmd, i + 1, found \/ cmd = commands[i])

CallFound(commands, cmd) == CallFoundFrom(commands, cmd, 1, FALSE)

\* The validation with the argument count tested before the command name.
CallValidateArgsFirst(commands, cmd, args) ==
  IF Len(args) > 1 THEN ErrTooMany
  ELSE IF ~CallFound(commands, cmd) THEN ErrUnavailable
       ELSE ErrNone

\* The validation with the argument cap off by one.
CallValidateCapTwo(commands, cmd, args) ==
  IF ~CallFound(commands, cmd) THEN ErrUnavailable
  ELSE IF Len(args) > 2 THEN ErrTooMany
       ELSE ErrNone

\* Device.Call, the validation before any request: the error returned, or
\* ErrNone when the request is to be issued.
CallValidate(commands, cmd, args) ==
  IF ~CallFound(commands, cmd) THEN ErrUnavailable
  ELSE IF Len(args) > 1 THEN ErrTooMany
       ELSE ErrNone

\* The request issued as soon as the command name is known, before the
\* argument count is looked at.
CallReachesTransportEarly(commands, cmd, args) == CallFound(commands, cmd)

\* Device.Call reaches issueCommand only past both validation returns.
CallReachesTransport(commands, cmd, args) == CallValidate(commands, cmd, args) = ErrNone

\* fmt.Sprintf("%v", a) of a float64 holding a small integer.
FormatArg(a) == ToString(a)

\* The path without the argument segment.
CallPathDropsArgument(id, cmd, args) == <<"devices", id, cmd>>

\* Device.Call, the request path as its "/"-separated segments.
CallPath(id, cmd, args) ==
  IF Len(args) > 0
  THEN <<"devices", id, cmd>> \o [i \in 1..Len(args) |-> FormatArg(args[i])]
  ELSE <<"devices", id, cmd>>

\* ---------------------------------------------------------------- state
VARIABLES
  connected,  \* Connect has returned a session without error
  client,     \* st.client is set
  endpoint,   \* st.endpoint
  Devices,    \* st.Devices: the locations of the slice's elements
  dev,        \* heap of Device structs
  maps,       \* heap of map[string]float64 objects
  installed,  \* per Device struct: the map value last stored in .attributes
  before,     \* st.Devices as it was when the running SmartThings.Refresh was called
  seen,       \* per thread: the st.Devices slice it last read
  pc,         \* per thread: position inside its current operation
  op,         \* per thread: the operation it is running
  d,          \* per thread: the receiver *Device (nd inside SmartThings.Refresh)
  all,        \* SmartThings.Refresh: the summaries still to process
  idx,        \* SmartThings.Refresh: how many summaries have been started
  dcs,        \* SmartThings.Refresh: the command descriptors of the current device
  detail,     \* Device.Refresh: detail.Attributes
  todo,       \* Device.Refresh: keys the range loop has not visited yet
  na,         \* Device.Refresh: the map being built
  out,        \* Device.Attributes: the map handed to the caller
  call,       \* Device.Call / Device.Attribute: the arguments
  req,        \* per thread: path of the GET in flight, <<>> when none
  gets,       \* per thread: GETs issued by its current (or last) operation
  ret         \* per thread: what its last operation returned

heapVars == <<dev, maps, installed>>
sessVars == <<connected, client, endpoint, Devices, before, seen>>
srVars == <<all, idx, dcs>>
drVars == <<detail, todo, na>>
vars == <<connected, client, endpoint, Devices, dev, maps, installed, before, seen, pc, op, d, all, idx,
          dcs, detail, todo, na, out, call, req, gets, ret>>

\* A Device struct; `refreshed` records that a Refresh of this struct (or of
\* the struct it was copied from) has stored a map in .attributes.
NoDevice == [ID |-> "", Commands |-> <<>>, attributes |-> 0, mu |-> 0, refreshed |-> FALSE]
NoEndpoint == ""
Endpoint == "uri"
NoCall == [cmd |-> "", args |-> <<>>, name |-> ""]
NoRet == [op |-> "", err |-> ErrNone, val |-> 0]

\* ------------------------------------------------------------- the heap
ThreadSeq == <<1, 2, 3>>

\* The session's fields with every variable that holds references, and the
\* heaps, as one record each: a step describes its writes as changes to Refs
\* and Heap.
Refs == [client |-> client, endpoint |-> endpoint, Devices |-> Devices, before |-> before,
         seen |-> seen, d |-> d, na |-> na, out |-> out]
Heap == [dev |-> dev, maps |-> maps, installed |-> installed]

NonZero(x) == x # 0

\* acc followed by the elements of s that are new, each once, in the order
\* of their first occurrences.
Uniq(s, acc) ==
  LET firsts == {i \in 1..Len(s) : s[i] \notin Range(acc) /\ \A j \in 1..(i - 1) : s[j] # s[i]}
      nth(k) == CHOOSE i \in firsts : Cardinality({j \in firsts : j < i}) = k - 1
  IN acc \o [k \in 1..Cardinality(firsts) |-> s[nth(k)]]

IndexOf(s, x) == CHOOSE i \in 1..Len(s) : s[i] = x

\* The Device structs reachable from the references r, in traversal order.
LiveLocSeq(r) ==
  Uniq(SelectSeq(r.Devices \o r.before
                   \o r.seen[ThreadSeq[1]] \o r.seen[ThreadSeq[2]] \o r.seen[ThreadSeq[3]]
                   \o [i \in 1..Len(ThreadSeq) |-> r.d[ThreadSeq[i]]], NonZero), <<>>)

\* The maps reachable from the references r in heap h, in traversal order.
LiveMapSeq(r, h) ==
  LET lo == LiveLocSeq(r)
  IN Uniq(SelectSeq([i \in 1..Len(lo) |-> h.dev[lo[i]].attributes]
                      \o [i \in 1..Len(ThreadSeq) |-> r.na[ThreadSeq[i]]]
                      \o [i \in 1..Len(ThreadSeq) |-> r.out[ThreadSeq[i]]], NonZero), <<>>)

Min(S) == CHOOSE x \in S : \A y \in S : x <= y

\* The allocator: n distinct locations not reachable from anywhere.
RECURSIVE FreshFrom(_, _)
FreshFrom(free, n) ==
  IF n = 0 THEN <<>>
  ELSE <<Min(free)>> \o FreshFrom(free \ {Min(free)}, n - 1)

\* Locations handed out again while references still reach them.
NewLocsReused(n) == FreshFrom(Locs, n)

NewLocs(n) == FreshFrom(Locs \ Range(LiveLocSeq(Refs)), n)
NewMap == Min(MapIds \ Range(LiveMapSeq(Refs, Heap)))

\* What a caller sees of a device: ID, Commands and the attribute values.
DeviceView(l) ==
  [ID |-> dev[l].ID, Commands |-> dev[l].Commands, attributes |-> maps[dev[l].attributes]]

DevicesView(devs) == [i \in 1..Len(devs) |-> DeviceView(devs[i])]

\* The SmartThings value as a caller sees it: its fields, the devices by ID.
Session(c, e, devs) ==
  [client |-> c, endpoint |-> e, Devices |-> [i \in 1..Len(devs) |-> dev[devs[i]].ID]]

\* SmartThings{}
NoSession == [client |-> FALSE, endpoint |-> NoEndpoint, Devices |-> <<>>]

Init ==
  /\ connected = FALSE
  /\ client = FALSE
  /\ endpoint = NoEndpoint
  /\ Devices = <<>>
  /\ dev = [l \in Locs |-> NoDevice]
  /\ maps = [m \in MapIds |-> EmptyMap]
  /\ installed = [l \in Locs |-> EmptyMap]
  /\ before = <<>>
  /\ seen = [t \in Threads |-> <<>>]
  /\ pc = [t \in Threads |-> "idle"]
  /\ op = [t \in Threads |-> ""]
  /\ d = [t \in Threads |-> 0]
  /\ all = [t \in Threads |-> <<>>]
  /\ idx = [t \in Threads |-> 0]
  /\ dcs = [t \in Threads |-> <<>>]
  /\ detail = [t \in Threads |-> EmptyMap]
  /\ todo = [t \in Threads |-> {}]
  /\ na = [t \in Threads |-> 0]
  /\ out = [t \in Threads |-> 0]
  /\ call = [t \in Threads |-> NoCall]
  /\ req = [t \in Threads |-> <<>>]
  /\ gets = [t \in Threads |-> 0]
  /\ ret = [t \in Threads |-> NoRet]


\* ------------------------------------------------------ action helpers
\* The step's writes r (references) and h (heaps) take effect, and the
\* garbage collector runs: objects no reference reaches are reclaimed and the
\* live ones are compacted to the lowest addresses, in traversal order.
Collect(rr, hh) ==
  \E r \in {rr}, h \in {hh} :
  \E lo \in {LiveLocSeq(r)}, mo \in {LiveMapSeq(r, h)} :
  LET loc(l) == IF l = 0 THEN 0 ELSE IndexOf(lo, l)
      map(x) == IF x = 0 THEN 0 ELSE IndexOf(mo, x)
      locs(q) == [i \in 1..Len(q) |-> loc(q[i])]
  IN /\ client' = r.client
     /\ endpoint' = r.endpoint
     /\ Devices' = locs(r.Devices)
     /\ before' = locs(r.before)
     /\ seen' = [t \in Threads |-> locs(r.seen[t])]
     /\ d' = [t \in Threads |-> loc(r.d[t])]
     /\ na' = [t \in Threads |-> map(r.na[t])]
     /\ out' = [t \in Threads |-> map(r.out[t])]
     /\ dev' = [l \in Locs |-> IF l <= Len(lo)
                               THEN [h.dev[lo[l]] EXCEPT !.attributes = map(@)]
                               ELSE NoDevice]
     /\ maps' = [x \in MapIds |-> IF x <= Len(mo) THEN h.maps[mo[x]] ELSE EmptyMap]
     /\ installed' = [l \in Locs |-> IF l <= Len(lo) THEN h.installed[lo[l]] ELSE EmptyMap]

\* client.Get(uri) in issueCommand: one more request goes out.
IssueGet(t, path) ==
  /\ req' = [req EXCEPT ![t] = path]
  /\ gets' = [gets EXCEPT ![t] = @ + 1]

\* A public method is entered by an idle thread; the results of the thread's
\* previous operation go out of scope.
Enter(t, name) ==
  /\ pc[t] = "idle"
  /\ op' = [op EXCEPT ![t] = name]
  /\ ret' = [ret EXCEPT ![t] = NoRet]
  /\ detail' = [detail EXCEPT ![t] = EmptyMap]

\* The references of thread t once it has entered a method with receiver l.
EnterRefs(t, l) == [Refs EXCEPT !.d[t] = l, !.out[t] = 0, !.seen[t] = <<>>]

\* The running operation returns (e, v) to its caller.
Return(t, e, v) ==
  /\ pc' = [pc EXCEPT ![t] = "idle"]
  /\ ret' = [ret EXCEPT ![t] = [op |-> op[t], err |-> e, val |-> v]]
  /\ req' = [req EXCEPT ![t] = <<>>]

InSessionRefresh(t) == pc[t] # "idle" /\ op[t] \in {"Connect", "SRefresh"}

\* SmartThings.Refresh returns e; its locals (all, nd, dcs) go out of scope.
\* Inside Connect, `return st, st.Refresh()` returns st as Refresh left it
\* together with e; callers go on with the session when e is nil.
SessionReturn(t, e) ==
  /\ Return(t, e, IF op[t] = "Connect" THEN Session(client, endpoint, Devices) ELSE 0)
  /\ all' = [all EXCEPT ![t] = <<>>]
  /\ idx' = [idx EXCEPT ![t] = 0]
  /\ dcs' = [dcs EXCEPT ![t] = <<>>]
  /\ connected' = (connected \/ e = ErrNone)
  /\ UNCHANGED <<op, detail, todo, call, gets>>
  /\ Collect([Refs EXCEPT !.d[t] = 0, !.before = <<>>], Heap)

\* ------------------------------------------- Connect / SmartThings.Refresh
\* Connect is entered (only the main thread connects): st := SmartThings{},
\* and GetToken is called.
ConnectCall(t) ==
  /\ ~connected
  /\ t = 1
  /\ Enter(t, "Connect")
  /\ pc' = [pc EXCEPT ![t] = "co_token"]
  /\ gets' = [gets EXCEPT ![t] = 0]
  /\ call' = [call EXCEPT ![t] = NoCall]
  /\ UNCHANGED <<connected, srVars, todo, req>>
  /\ Collect([EnterRefs(t, 0) EXCEPT !.client = FALSE, !.endpoint = NoEndpoint,
                                     !.Devices = <<>>], Heap)

\* GetToken fails: return st, err.
ConnectTokenFail(t) ==
  /\ pc[t] = "co_token"
  /\ Return(t, ErrAuth, Session(client, endpoint, Devices))
  /\ UNCHANGED <<connected, op, srVars, detail, todo, call, gets>>
  /\ Collect(Refs, Heap)

\* GetToken returns a token: st.client is set and GetEndPointsURI is called.
ConnectToken(t) ==
  /\ pc[t] = "co_token"
  /\ pc' = [pc EXCEPT ![t] = "co_endpoint"]
  /\ UNCHANGED <<connected, op, srVars, detail, todo, call, req, gets, ret>>
  /\ Collect([Refs EXCEPT !.client = TRUE], Heap)

\* GetEndPointsURI fails: st.endpoint takes the empty result, return st, err.
ConnectEndpointFail(t, status) ==
  /\ pc[t] = "co_endpoint"
  /\ status # ErrNone
  /\ Return(t, status, Session(client, NoEndpoint, Devices))
  /\ UNCHANGED <<connected, op, srVars, detail, todo, call, gets>>
  /\ Collect([Refs EXCEPT !.endpoint = NoEndpoint], Heap)

\* GetEndPointsURI returns the URI: st.endpoint is set.
ConnectEndpoint(t) ==
  /\ pc[t] = "co_endpoint"
  /\ pc' = [pc EXCEPT ![t] = "co_refresh"]
  /\ UNCHANGED <<connected, op, srVars, detail, todo, call, req, gets, ret>>
  /\ Collect([Refs EXCEPT !.endpoint = Endpoint], Heap)

\* st.Refresh() is entered, from Connect or by a caller that holds the
\* session, and GetDevices' request goes out.  Session refreshes are not run
\* concurrently with each other.
SRefreshCall(t) ==
  /\ IF connected
     THEN (\A u \in Threads : ~InSessionRefresh(u)) /\ Enter(t, "SRefresh")
     ELSE pc[t] = "co_refresh" /\ UNCHANGED <<op, ret, detail>>
  /\ pc' = [pc EXCEPT ![t] = "sr_list"]
  /\ req' = [req EXCEPT ![t] = <<"devices">>]
  /\ gets' = [gets EXCEPT ![t] = 1]
  /\ call' = [call EXCEPT ![t] = NoCall]
  /\ UNCHANGED <<connected, srVars, todo>>
  /\ Collect([EnterRefs(t, 0) EXCEPT !.before = Devices], Heap)

\* The collection dropped before the list is known to have arrived.
SRefreshListFailClears(t, status) ==
  /\ pc[t] = "sr_list"
  /\ status # ErrNone
  /\ Return(t, status, IF op[t] = "Connect" THEN Session(client, endpoint, <<>>) ELSE 0)
  /\ all' = [all EXCEPT ![t] = <<>>]
  /\ idx' = [idx EXCEPT ![t] = 0]
  /\ dcs' = [dcs EXCEPT ![t] = <<>>]
  /\ UNCHANGED <<connected, op, detail, todo, call, gets>>
  /\ Collect([Refs EXCEPT !.d[t] = 0, !.before = <<>>, !.Devices = <<>>], Heap)

\* GetDevices fails: SmartThings.Refresh returns the error.
SRefreshListFail(t, status) ==
  /\ pc[t] = "sr_list"
  /\ status # ErrNone
  /\ SessionReturn(t, status)

\* GetDevices returns the summaries: st.Devices = nil.
SRefreshList(t, list) ==
  /\ pc[t] = "sr_list"
  /\ all' = [all EXCEPT ![t] = list]
  /\ idx' = [idx EXCEPT ![t] = 0]
  /\ pc' = [pc EXCEPT ![t] = "sr_next"]
  /\ req' = [req EXCEPT ![t] = <<>>]
  /\ UNCHANGED <<connected, op, dcs, detail, todo, call, gets, ret>>
  /\ Collect([Refs EXCEPT !.Devices = <<>>], Heap)

\* Head of `for _, rd := range all` with a summary left: nd is built and
\* GetDeviceInfo's request goes out.
SRefreshNext(t) ==
  /\ pc[t] = "sr_next"
  /\ idx[t] < Len(all[t])
  /\ LET l == NewLocs(1)[1]
         m == NewMap
         id == all[t][idx[t] + 1]
     IN /\ idx' = [idx EXCEPT ![t] = @ + 1]
        /\ IssueGet(t, <<"devices", id>>)
        /\ pc' = [pc EXCEPT ![t] = "sr_detail"]
        /\ UNCHANGED <<connected, op, all, dcs, detail, todo, call, ret>>
        /\ Collect([Refs EXCEPT !.d[t] = l],
                   [Heap EXCEPT !.dev[l] = [ID |-> id, Commands |-> <<>>,
                                            attributes |-> m, mu |-> 0,
                                            refreshed |-> FALSE],
                                !.maps[m] = EmptyMap,
                                !.installed[l] = EmptyMap])

\* Head of the loop with no summary left: return nil.
SRefreshDone(t) ==
  /\ pc[t] = "sr_next"
  /\ idx[t] >= Len(all[t])
  /\ SessionReturn(t, ErrNone)

\* GetDeviceInfo(rd.ID), GetDeviceCommands(rd.ID) or nd.Refresh() fails
\* inside SmartThings.Refresh: the error is returned.
SRefreshDeviceFail(t, status) ==
  /\ pc[t] \in {"sr_detail", "sr_cmds"} \/ (pc[t] = "dr_fetch" /\ op[t] # "DRefresh")
  /\ status # ErrNone
  /\ SessionReturn(t, status)

\* GetDeviceInfo(rd.ID) returns the detail: GetDeviceCommands' request goes out.
SRefreshDetail(t) ==
  /\ pc[t] = "sr_detail"
  /\ IssueGet(t, <<"devices", dev[d[t]].ID, "commands">>)
  /\ pc' = [pc EXCEPT ![t] = "sr_cmds"]
  /\ UNCHANGED <<connected, op, srVars, detail, todo, call, ret>>
  /\ Collect(Refs, Heap)

\* GetDeviceCommands(rd.ID) returns the descriptors: nd.Commands is built,
\* then nd.Refresh() is entered and requests the detail.
SRefreshCommands(t, raw) ==
  /\ pc[t] = "sr_cmds"
  /\ dcs' = [dcs EXCEPT ![t] = raw]
  /\ IssueGet(t, <<"devices", dev[d[t]].ID>>)
  /\ pc' = [pc EXCEPT ![t] = "dr_fetch"]
  /\ UNCHANGED <<connected, op, all, idx, detail, todo, call, ret>>
  /\ Collect(Refs, [Heap EXCEPT !.dev[d[t]].Commands = DedupCommands(raw)])

\* nd put in front of the elements collected so far.
SRefreshAppendFront(t) ==
  /\ pc[t] = "sr_append"
  /\ dcs' = [dcs EXCEPT ![t] = <<>>]
  /\ detail' = [detail EXCEPT ![t] = EmptyMap]
  /\ pc' = [pc EXCEPT ![t] = "sr_next"]
  /\ UNCHANGED <<connected, op, all, idx, todo, call, req, gets, ret>>
  /\ LET n == Len(Devices)
         arr == NewLocs(n + 1)
         src(l) == IF l = arr[1] THEN d[t] ELSE Devices[IndexOf(arr, l) - 1]
     IN Collect([Refs EXCEPT !.Devices = arr, !.d[t] = 0],
                [Heap EXCEPT !.dev = [l \in Locs |-> IF l \in Range(arr) THEN dev[src(l)]
                                                     ELSE dev[l]],
                             !.installed = [l \in Locs |-> IF l \in Range(arr)
                                                           THEN installed[src(l)]
                                                           ELSE installed[l]]])

\* st.Devices = append(st.Devices, nd): the slice is full, so the elements
\* and nd are copied into a new backing array.
SRefreshAppend(t) ==
  /\ pc[t] = "sr_append"
  /\ dcs' = [dcs EXCEPT ![t] = <<>>]
  /\ detail' = [detail EXCEPT ![t] = EmptyMap]
  /\ pc' = [pc EXCEPT ![t] = "sr_next"]
  /\ UNCHANGED <<connected, op, all, idx, todo, call, req, gets, ret>>
  /\ LET n == Len(Devices)
         arr == NewLocs(n + 1)
         src(l) == IF l = arr[n + 1] THEN d[t] ELSE Devices[IndexOf(arr, l)]
     IN Collect([Refs EXCEPT !.Devices = arr, !.d[t] = 0],
                [Heap EXCEPT !.dev = [l \in Locs |-> IF l \in Range(arr) THEN dev[src(l)]
                                                     ELSE dev[l]],
                             !.installed = [l \in Locs |-> IF l \in Range(arr)
                                                           THEN installed[src(l)]
                                                           ELSE installed[l]]])

\* A caller that holds the session reads the exported field st.Devices.
ReadDevices(t) ==
  /\ connected
  /\ Enter(t, "Devices")
  /\ call' = [call EXCEPT ![t] = NoCall]
  /\ UNCHANGED <<connected, pc, srVars, todo, req, gets>>
  /\ Collect([EnterRefs(t, 0) EXCEPT !.seen[t] = Devices], Heap)

\* ------------------------------------------------------- Device.Refresh
\* A caller that holds the session picks an element of st.Devices.
CanUse(t, l) == connected /\ l \in Range(Devices)

\* Device.Refresh taking d.mu before it sends the request.
DRefreshCallLocked(t, l) ==
  /\ CanUse(t, l)
  /\ Enter(t, "DRefresh")
  /\ dev[l].mu = 0
  /\ pc' = [pc EXCEPT ![t] = "dr_fetch"]
  /\ req' = [req EXCEPT ![t] = <<"devices", dev[l].ID>>]
  /\ gets' = [gets EXCEPT ![t] = 1]
  /\ call' = [call EXCEPT ![t] = NoCall]
  /\ UNCHANGED <<connected, srVars, todo>>
  /\ Collect(EnterRefs(t, l), [Heap EXCEPT !.dev[l].mu = t])

\* Device.Refresh is entered and GetDeviceInfo's request goes out.
DRefreshCall(t, l) ==
  /\ CanUse(t, l)
  /\ Enter(t, "DRefresh")
  /\ pc' = [pc EXCEPT ![t] = "dr_fetch"]
  /\ req' = [req EXCEPT ![t] = <<"devices", dev[l].ID>>]
  /\ gets' = [gets EXCEPT ![t] = 1]
  /\ call' = [call EXCEPT ![t] = NoCall]
  /\ UNCHANGED <<connected, srVars, todo>>
  /\ Collect(EnterRefs(t, l), Heap)

\* The error path with the cache dropped before the error is returned.
DRefreshFailClears(t, status) ==
  /\ pc[t] = "dr_fetch"
  /\ op[t] = "DRefresh"
  /\ status # ErrNone
  /\ Return(t, status, 0)
  /\ UNCHANGED <<connected, op, srVars, detail, todo, call, gets>>
  /\ Collect(Refs, [Heap EXCEPT !.maps[dev[d[t]].attributes] = EmptyMap])

\* GetDeviceInfo fails inside a Device.Refresh the caller entered: the error
\* is returned.
DRefreshFail(t, status) ==
  /\ pc[t] = "dr_fetch"
  /\ op[t] = "DRefresh"
  /\ status # ErrNone
  /\ Return(t, status, 0)
  /\ UNCHANGED <<connected, op, srVars, detail, todo, call, gets>>
  /\ Collect(Refs, Heap)

\* The cached map cleared and refilled instead of a new map.
RefreshTargetInPlace(t) == dev[d[t]].attributes

\* na := make(map[string]float64): the map Device.Refresh fills.
RefreshTarget(t) == NewMap

\* The new map starting from the entries cached so far.
RefreshInitialCached(t) == maps[dev[d[t]].attributes]

\* make(map[string]float64): na starts empty.
RefreshInitial(t) == EmptyMap

\* GetDeviceInfo returns the detail inside Device.Refresh: na is made and
\* the range loop starts.
DRefreshFetch(t, wattrs) ==
  /\ pc[t] = "dr_fetch"
  /\ detail' = [detail EXCEPT ![t] = UnmarshalAttributes(wattrs)]
  /\ todo' = [todo EXCEPT ![t] = DOMAIN wattrs]
  /\ pc' = [pc EXCEPT ![t] = "dr_norm"]
  /\ req' = [req EXCEPT ![t] = <<>>]
  /\ UNCHANGED <<connected, op, srVars, call, gets, ret>>
  /\ LET m == RefreshTarget(t)
     IN Collect([Refs EXCEPT !.na[t] = m], [Heap EXCEPT !.maps[m] = RefreshInitial(t)])

\* One iteration of `for k, v := range detail.Attributes`.
DRefreshNorm(t, k) ==
  /\ pc[t] = "dr_norm"
  /\ k \in todo[t]
  /\ todo' = [todo EXCEPT ![t] = @ \ {k}]
  /\ UNCHANGED <<connected, pc, op, srVars, detail, call, req, gets, ret>>
  /\ Collect(Refs, [Heap EXCEPT !.maps[na[t]] = NormalizeInto(@, k, detail[t][k])])

\* d.mu.Lock() after the loop.
DRefreshLock(t) ==
  /\ pc[t] = "dr_norm"
  /\ todo[t] = {}
  /\ dev[d[t]].mu = 0
  /\ pc' = [pc EXCEPT ![t] = "dr_swap"]
  /\ UNCHANGED <<connected, op, srVars, detail, todo, call, req, gets, ret>>
  /\ Collect(Refs, [Heap EXCEPT !.dev[d[t]].mu = t])

\* d.attributes = na; return nil, with the deferred d.mu.Unlock().
DRefreshSwap(t) ==
  /\ pc[t] = "dr_swap"
  /\ IF op[t] = "DRefresh"
     THEN Return(t, ErrNone, 0)
     ELSE pc' = [pc EXCEPT ![t] = "sr_append"] /\ UNCHANGED <<ret, req>>
  /\ UNCHANGED <<connected, op, srVars, detail, todo, call, gets>>
  /\ Collect([Refs EXCEPT !.na[t] = 0],
             [Heap EXCEPT !.dev[d[t]].attributes = na[t],
                          !.dev[d[t]].mu = 0,
                          !.dev[d[t]].refreshed = TRUE,
                          !.installed[d[t]] = maps[na[t]]])

\* ---------------------------------------------------- Device.Attributes
AttributesCall(t, l) ==
  /\ CanUse(t, l)
  /\ Enter(t, "Attributes")
  /\ pc' = [pc EXCEPT ![t] = "at_lock"]
  /\ gets' = [gets EXCEPT ![t] = 0]
  /\ call' = [call EXCEPT ![t] = NoCall]
  /\ UNCHANGED <<connected, srVars, todo, req>>
  /\ Collect(EnterRefs(t, l), Heap)

\* d.mu.Lock()
AttributesLock(t) ==
  /\ pc[t] = "at_lock"
  /\ dev[d[t]].mu = 0
  /\ pc' = [pc EXCEPT ![t] = "at_copy"]
  /\ UNCHANGED <<connected, op, srVars, detail, todo, call, req, gets, ret>>
  /\ Collect(Refs, [Heap EXCEPT !.dev[d[t]].mu = t])

\* The cached map itself handed out instead of a copy.
AttributesTargetLive(t) == dev[d[t]].attributes

\* out := make(map[string]float64): the map Device.Attributes hands out.
AttributesTarget(t) == NewMap

\* The copy loop `for k, v := range d.attributes { out[k] = v }`, run with
\* the mutex held.
AttributesCopy(t) ==
  /\ pc[t] = "at_copy"
  /\ pc' = [pc EXCEPT ![t] = "at_unlock"]
  /\ UNCHANGED <<connected, op, srVars, detail, todo, call, req, gets, ret>>
  /\ LET m == AttributesTarget(t)
     IN Collect([Refs EXCEPT !.out[t] = m],
                [Heap EXCEPT !.maps[m] = maps[dev[d[t]].attributes]])

\* The return without the deferred unlock.
AttributesReturnKeepsLock(t) ==
  /\ pc[t] = "at_unlock"
  /\ Return(t, ErrNone, 0)
  /\ UNCHANGED <<connected, op, srVars, detail, todo, call, gets>>
  /\ Collect(Refs, Heap)

\* return out, with the deferred d.mu.Unlock().
AttributesReturn(t) ==
  /\ pc[t] = "at_unlock"
  /\ Return(t, ErrNone, 0)
  /\ UNCHANGED <<connected, op, srVars, detail, todo, call, gets>>
  /\ Collect(Refs, [Heap EXCEPT !.dev[d[t]].mu = 0])

\* The caller writes to, or deletes from, the map Attributes returned.
MutVals == {7}
MutateReturned(t, k, del) ==
  /\ pc[t] = "idle"
  /\ op[t] = "Attributes"
  /\ out[t] # 0
  /\ IF del THEN k \in DOMAIN maps[out[t]] ELSE MapGet(maps[out[t]], k) \notin MutVals
  /\ UNCHANGED <<connected, pc, op, srVars, detail, todo, call, req, gets, ret>>
  /\ Collect(Refs, [Heap EXCEPT !.maps[out[t]] = IF del THEN MapDelete(@, k)
                                                 ELSE MapSet(@, k, CHOOSE x \in MutVals : TRUE)])

\* ----------------------------------------------------- Device.Attribute
AttributeCall(t, l, name) ==
  /\ CanUse(t, l)
  /\ Enter(t, "Attribute")
  /\ pc' = [pc EXCEPT ![t] = "a1_lock"]
  /\ gets' = [gets EXCEPT ![t] = 0]
  /\ call' = [call EXCEPT ![t] = [NoCall EXCEPT !.name = name]]
  /\ UNCHANGED <<connected, srVars, todo, req>>
  /\ Collect(EnterRefs(t, l), Heap)

\* d.mu.Lock()
AttributeLock(t) ==
  /\ pc[t] = "a1_lock"
  /\ dev[d[t]].mu = 0
  /\ pc' = [pc EXCEPT ![t] = "a1_read"]
  /\ UNCHANGED <<connected, op, srVars, detail, todo, call, req, gets, ret>>
  /\ Collect(Refs, [Heap EXCEPT !.dev[d[t]].mu = t])

\* The lookup of a missing key leaving the key in the map with the zero value.
AttributeReturnInserts(t) ==
  /\ pc[t] = "a1_read"
  /\ Return(t, ErrNone, MapGet(maps[dev[d[t]].attributes], call[t].name))
  /\ UNCHANGED <<connected, op, srVars, detail, todo, call, gets>>
  /\ Collect(Refs, [Heap EXCEPT !.dev[d[t]].mu = 0,
                                !.maps[dev[d[t]].attributes] =
                                   MapSet(@, call[t].name, MapGet(@, call[t].name))])

\* return d.attributes[name], with the deferred d.mu.Unlock().
AttributeReturn(t) ==
  /\ pc[t] = "a1_read"
  /\ Return(t, ErrNone, MapGet(maps[dev[d[t]].attributes], call[t].name))
  /\ UNCHANGED <<connected, op, srVars, detail, todo, call, gets>>
  /\ Collect(Refs, [Heap EXCEPT !.dev[d[t]].mu = 0])

\* ----------------------------------------------------------- Device.Call
\* Device.Call up to its return of a validation error, or up to the request.
CallInvoke(t, l, cmd, args) ==
  /\ CanUse(t, l)
  /\ pc[t] = "idle"
  /\ op' = [op EXCEPT ![t] = "Call"]
  /\ detail' = [detail EXCEPT ![t] = EmptyMap]
  /\ call' = [call EXCEPT ![t] = [NoCall EXCEPT !.cmd = cmd, !.args = args]]
  /\ LET e == CallValidate(dev[l].Commands, cmd, args)
         sent == CallReachesTransport(dev[l].Commands, cmd, args)
     IN /\ gets' = [gets EXCEPT ![t] = IF sent THEN 1 ELSE 0]
        /\ req' = [req EXCEPT ![t] = IF sent THEN CallPath(dev[l].ID, cmd, args) ELSE <<>>]
        /\ IF e # ErrNone
           THEN /\ ret' = [ret EXCEPT ![t] = [op |-> "Call", err |-> e, val |-> 0]]
                /\ pc' = pc
           ELSE /\ ret' = [ret EXCEPT ![t] = NoRet]
                /\ pc' = [pc EXCEPT ![t] = "call_wait"]
  /\ UNCHANGED <<connected, srVars, todo>>
  /\ Collect(EnterRefs(t, l), Heap)

\* A successful command written through to the cached attributes.
CallResponseUpdatesCache(t, status) ==
  /\ pc[t] = "call_wait"
  /\ Return(t, status, 0)
  /\ UNCHANGED <<connected, op, srVars, detail, todo, call, gets>>
  /\ Collect(Refs, [Heap EXCEPT !.maps[dev[d[t]].attributes] =
                                   IF status = ErrNone THEN MapSet(@, "switch", 1) ELSE @])

\* issueCommand returns inside Device.Call: its error is the result.
CallResponse(t, status) ==
  /\ pc[t] = "call_wait"
  /\ Return(t, status, 0)
  /\ UNCHANGED <<connected, op, srVars, detail, todo, call, gets>>
  /\ Collect(Refs, Heap)

\* ------------------------------------------------------ specifications
\* What the service answers with.
Catalogue == <<"d1", "d2", "d3">>
SummaryLists == {SubSeq(Catalogue, 1, n) : n \in 0..MaxDevices}
RawCommandLists == {<<"on", "setLevel", "on">>}
AllRawCommandLists == SeqsUpTo(CmdNames, MaxCommands)
CallArgs == {<<>>, <<100>>, <<1, 2>>, <<1, 2, 3>>}
Failures == RespStatus \ {ErrNone}

\* The steps of Connect / SmartThings.Refresh on thread t, with the
\* service's answers drawn from the given sets.
SessionSteps(t, lists, rawlists) ==
  \/ ConnectCall(t)
  \/ ConnectTokenFail(t)
  \/ ConnectToken(t)
  \/ \E status \in Failures : ConnectEndpointFail(t, status)
  \/ ConnectEndpoint(t)
  \/ SRefreshCall(t)
  \/ \E status \in Failures : SRefreshListFail(t, status)
  \/ \E list \in lists : SRefreshList(t, list)
  \/ SRefreshNext(t)
  \/ SRefreshDone(t)
  \/ \E status \in Failures : SRefreshDeviceFail(t, status)
  \/ SRefreshDetail(t)
  \/ \E raw \in rawlists : SRefreshCommands(t, raw)
  \/ SRefreshAppend(t)

\* The steps inside Device.Refresh on thread t.
RefreshSteps(t, wires) ==
  \/ \E wattrs \in wires : DRefreshFetch(t, wattrs)
  \/ \E k \in Keys : DRefreshNorm(t, k)
  \/ DRefreshLock(t)
  \/ DRefreshSwap(t)

\* The steps inside Device.Attributes on thread t.
AttributesSteps(t) ==
  \/ AttributesLock(t)
  \/ AttributesCopy(t)
  \/ AttributesReturn(t)

\* The session: the main thread connects and refreshes the catalogue while
\* a second thread reads st.Devices.
Next ==
  \/ SessionSteps(1, SummaryLists, RawCommandLists)
  \/ RefreshSteps(1, WireAttrs)
  \/ ReadDevices(2)

Spec == Init /\ [][Next]_vars

\* Connect alone, answered with the given summaries and descriptors.
ConnectSteps(lists, rawlists, wires) ==
  ~connected /\ (SessionSteps(1, lists, rawlists) \/ RefreshSteps(1, wires))

\* One device: after Connect, threads refresh it and read its attributes.
NextDevice ==
  \/ ConnectSteps({<<"d1">>}, RawCommandLists, WireAttrs)
  \/ \E t \in Threads :
       \/ \E l \in Locs : DRefreshCall(t, l)
       \/ \E status \in Failures : DRefreshFail(t, status)
       \/ connected /\ RefreshSteps(t, WireAttrs)
       \/ \E l \in Locs : AttributesCall(t, l)
       \/ AttributesSteps(t)

SpecDevice == Init /\ [][NextDevice]_vars

\* One device: after Connect, threads read its attributes and write to the
\* maps they were handed.
NextCopy ==
  \/ ConnectSteps({<<"d1">>}, RawCommandLists, WireAttrs)
  \/ \E t \in {1, 2} :
       \/ \E l \in Locs : AttributesCall(t, l)
       \/ AttributesSteps(t)
       \/ \E k \in Keys, del \in BOOLEAN : MutateReturned(t, k, del)
       \/ \E l \in Locs, name \in Keys : AttributeCall(t, l, name)
       \/ AttributeLock(t)
       \/ AttributeReturn(t)

SpecCopy == Init /\ [][NextCopy]_vars

\* One device, with or without commands: after Connect, threads call it.
NextCall ==
  \/ ConnectSteps({<<"d1">>}, RawCommandLists \cup {<<>>}, {DetailOff})
  \/ \E t \in {1, 2} :
       \/ \E l \in Locs, cmd \in CallNames, args \in CallArgs : CallInvoke(t, l, cmd, args)
       \/ \E status \in {ErrNone, ErrNetwork} : CallResponse(t, status)

SpecCall == Init /\ [][NextCall]_vars

\* Connect over every command-descriptor list.
NextDedup == ConnectSteps({<<"d1">>}, AllRawCommandLists, {DetailOff})

SpecDedup == Init /\ [][NextDedup]_vars

\* Connect over every attribute object.
NextNorm == ConnectSteps({<<"d1">>}, RawCommandLists, AllWireAttrs)

SpecNorm == Init /\ [][NextNorm]_vars

\* One device, connected with the attributes of DetailOn: two threads refresh
\* it and the service answers with other key sets.
NextReplace ==
  \/ ConnectSteps({<<"d1">>}, RawCommandLists, {DetailOn})
  \/ \E t \in {1, 2} :
       \/ \E l \in Locs : DRefreshCall(t, l)
       \/ DRefreshFail(t, ErrDecode)
       \/ connected /\ RefreshSteps(t, ReplaceWires)

SpecReplace == Init /\ [][NextReplace]_vars

\* One device: after Connect, two threads refresh it, read its attributes
\* and call it.
GuardThreads == {1, 2}

\* The steps thread t takes inside Device.Refresh, Attributes and Attribute
\* once it has entered one of them, the transport's answer included.
GuardedSteps(t) ==
  \/ DRefreshFail(t, ErrNetwork)
  \/ connected /\ RefreshSteps(t, {DetailOn})
  \/ AttributesSteps(t)
  \/ AttributeLock(t)
  \/ AttributeReturn(t)

NextGuard ==
  \/ ConnectSteps({<<"d1">>}, RawCommandLists, {DetailOff})
  \/ \E t \in GuardThreads :
       \/ \E l \in Locs : DRefreshCall(t, l)
       \/ \E l \in Locs : AttributesCall(t, l)
       \/ \E l \in Locs : AttributeCall(t, l, "switch")
       \/ GuardedSteps(t)
       \/ \E l \in Locs : CallInvoke(t, l, "on", <<>>)
       \/ \E status \in {ErrNone, ErrNetwork} : CallResponse(t, status)

SpecGuard == Init /\ [][NextGuard]_vars

\* The same, with every request answered, every goroutine scheduled and
\* sync.Mutex handing the lock to a goroutine that keeps waiting for it.
SpecLive == SpecGuard /\ \A t \in GuardThreads : SF_vars(GuardedSteps(t))

\* --------------------------------------------------------------- claims
\* A per-device request of the running SmartThings.Refresh is in flight.
DeviceRequestInFlight(t) ==
  InSessionRefresh(t) /\ pc[t] \in {"sr_detail", "sr_cmds", "dr_fetch"}

\* C1: when the detail fetch, the command-list fetch or the attribute refresh
\* of a device fails inside SmartThings.Refresh, Refresh returns the error and
\* st.Devices holds the same devices as when Refresh was called.
C1_FailedRefreshKeepsDevices ==
  [][\A t \in Threads, status \in Failures :
       (DeviceRequestInFlight(t) /\ SRefreshDeviceFail(t, status))
         => /\ ret'[t].err = status
            /\ DevicesView(Devices)' = DevicesView(before)]_vars

\* The collection SmartThings.Refresh on thread t is building is complete.
CompleteNew(t) ==
  pc[t] = "sr_next" /\ idx[t] = Len(all[t]) /\ Len(Devices) = Len(all[t])

\* C2: a thread that reads st.Devices while a SmartThings.Refresh is running
\* gets the whole collection from before the refresh or the whole new one.
C2_ReaderSeesOldOrNew ==
  [][\A r, t \in Threads :
       (ReadDevices(r) /\ InSessionRefresh(t))
         => (seen'[r] = before' \/ (CompleteNew(t) /\ seen'[r] = Devices'))]_vars

\* Thread r is inside Device.Refresh on device l and has fetched the detail.
Refreshing(r, l) == pc[r] \in {"dr_norm", "dr_swap"} /\ d[r] = l

\* C3: a map returned by Device.Attributes is the whole map the device held
\* before a concurrent Device.Refresh or the whole map that refresh installs.
C3_AttributesNeverTorn ==
  \A t \in Threads :
    pc[t] = "at_unlock"
      => \/ maps[out[t]] = installed[d[t]]
         \/ \E r \in Threads : Refreshing(r, d[t]) /\ maps[out[t]] = NormalizeAll(detail[r])

\* Two readers and a refresh half way through its loop on the same device,
\* whose new map differs from the cached one.
C3_Witness ==
  \E t, u, r \in Threads :
    /\ pc[t] = "at_unlock" /\ pc[u] = "at_lock" /\ pc[r] = "dr_norm"
    /\ d[u] = d[t] /\ d[r] = d[t]
    /\ todo[r] # {} /\ maps[na[r]] # EmptyMap
    /\ maps[out[t]] # EmptyMap
    /\ maps[out[t]] # NormalizeAll(detail[r])

\* C10: a Device.Refresh whose GetDeviceInfo fails returns that error and
\* leaves the device's attribute map and command set as they were; entering
\* Device.Refresh changes neither.
C10_FailedDeviceRefreshKeepsState ==
  [][\A t \in Threads :
       /\ \A l \in Locs : DRefreshCall(t, l) => DeviceView(d[t])' = DeviceView(l)
       /\ \A status \in Failures :
            DRefreshFail(t, status)
              => /\ ret'[t] = [op |-> "DRefresh", err |-> status, val |-> 0]
                 /\ DeviceView(d[t])' = DeviceView(d[t])]_vars

\* A Device.Refresh has failed on a device with cached attributes and commands.
C10_Witness ==
  \E t \in Threads :
    /\ pc[t] = "idle" /\ ret[t].op = "DRefresh" /\ ret[t].err \in Failures
    /\ maps[dev[d[t]].attributes] # EmptyMap
    /\ dev[d[t]].Commands # <<>>

\* C4: writing to a map returned by Device.Attributes changes nothing a later
\* Attributes or Attribute call returns: with no refresh in between, every
\* device still holds, and every call still returns, the values last installed.
C4_ReturnedMapIsACopy ==
  /\ \A l \in Range(Devices) : maps[dev[l].attributes] = installed[l]
  /\ \A t \in Threads :
       /\ pc[t] = "at_unlock" => maps[out[t]] = installed[d[t]]
       /\ (pc[t] = "idle" /\ op[t] = "Attribute")
            => ret[t].val = MapGet(installed[d[t]], call[t].name)
       /\ out[t] # 0 => \A l \in Locs : dev[l].attributes # out[t]

\* One caller has written to the map it was handed while another caller has
\* just copied, or just read a value of, the same device.
C4_Witness ==
  \E u, t \in Threads :
    /\ pc[u] = "idle" /\ op[u] = "Attributes" /\ out[u] # 0
    /\ maps[out[u]] # installed[d[u]]
    /\ installed[d[u]] # EmptyMap
    /\ d[t] = d[u]
    /\ \/ pc[t] = "at_unlock"
       \/ pc[t] = "idle" /\ op[t] = "Attribute" /\ ret[t].val # 0

\* A Device.Call has returned to thread t.
CallReturned(t) == pc[t] = "idle" /\ op[t] = "Call"

\* C5: Device.Call returns "unavailable command" exactly when HasCommand is
\* false for the name, whatever the number of arguments.
C5_UnavailableIffNotInSet ==
  \A t \in Threads :
    CallReturned(t)
      => (ret[t].err = ErrUnavailable <=> ~HasCommand(dev[d[t]].Commands, call[t].cmd))

\* An unknown name with two arguments was refused as unavailable, and a known
\* name with two arguments was not.
C5_Witness ==
  \E t, u \in Threads :
    /\ CallReturned(t) /\ Len(call[t].args) >= 2 /\ ret[t].err = ErrUnavailable
    /\ CallReturned(u) /\ Len(call[u].args) >= 2 /\ ret[u].err = ErrTooMany

\* C6 as stated: a Device.Call with two or more arguments fails with "too
\* many arguments".
C6_TwoArgsAlwaysTooMany ==
  \A t \in Threads :
    (CallReturned(t) /\ Len(call[t].args) >= 2) => ret[t].err = ErrTooMany

\* C6 amended: a Device.Call with two or more arguments always fails and
\* sends nothing: with "too many arguments" when the name is in the command
\* set, with "unavailable command" when it is not.
C6_TwoArgsAlwaysFail ==
  \A t \in Threads :
    /\ (op[t] = "Call" /\ Len(call[t].args) >= 2) => pc[t] = "idle"
    /\ (CallReturned(t) /\ Len(call[t].args) >= 2)
         => ret[t].err = IF HasCommand(dev[d[t]].Commands, call[t].cmd)
                         THEN ErrTooMany ELSE ErrUnavailable

\* A known name was called with two, and with three, arguments.
C6_Witness ==
  \E t, u \in Threads :
    /\ CallReturned(t) /\ Len(call[t].args) = 2 /\ ret[t].err = ErrTooMany
    /\ CallReturned(u) /\ Len(call[u].args) = 3 /\ ret[u].err = ErrTooMany

\* C7: a Device.Call that fails validation issues no request.
C7_ValidationFailureSendsNothing ==
  \A t \in Threads :
    (CallReturned(t) /\ ret[t].err \in {ErrUnavailable, ErrTooMany})
      => (gets[t] = 0 /\ req[t] = <<>>)

\* One call was refused for its name and one for its argument count.
C7_Witness ==
  \E t, u \in Threads :
    /\ CallReturned(t) /\ ret[t].err = ErrUnavailable
    /\ CallReturned(u) /\ ret[u].err = ErrTooMany

\* Position of the first occurrence of x in s.
FirstIndex(s, x) == Min({i \in 1..Len(s) : s[i] = x})

\* nd.Commands of thread t's SmartThings.Refresh has been built from dcs.
CommandsBuilt(t) ==
  InSessionRefresh(t) /\ pc[t] \in {"dr_fetch", "dr_norm", "dr_swap", "sr_append"}

\* C8: the Commands built from a descriptor list hold each distinct name of
\* the list once, in the order of the names' first occurrences.
C8_CommandsDistinctFirstSeen ==
  \A t \in Threads :
    CommandsBuilt(t)
      => LET c == dev[d[t]].Commands
             raw == dcs[t]
         IN /\ Range(c) = Range(raw)
            /\ \A i, j \in 1..Len(c) : i < j => c[i] # c[j]
            /\ \A i, j \in 1..Len(c) :
                 i < j => FirstIndex(raw, c[i]) < FirstIndex(raw, c[j])

\* A list with a repeated name that is not adjacent to its first occurrence.
C8_Witness ==
  \E t \in Threads :
    /\ CommandsBuilt(t) /\ pc[t] = "sr_append"
    /\ dcs[t] = <<"setLevel", "on", "setLevel">>
    /\ dev[d[t]].Commands = <<"setLevel", "on">>

\* Device.Refresh on thread t has stored the map built from detail[t].
Normalized(t) == InSessionRefresh(t) /\ pc[t] = "sr_append"

\* C9: the map Device.Refresh caches holds, per key of the fetched
\* attributes: a number unchanged, 1 for "on" and "present", 0 for any other
\* string, and no entry for a value of another type.
C9_NormalizedPerKey ==
  \A t \in Threads :
    Normalized(t)
      => LET m == maps[dev[d[t]].attributes]
             a == detail[t]
         IN /\ DOMAIN m = {k \in DOMAIN a : a[k].type \in {"float64", "string"}}
            /\ \A k \in DOMAIN m :
                 m[k] = IF a[k].type = "float64" THEN a[k].num
                        ELSE IF a[k].str \in {"on", "present"} THEN 1 ELSE 0
            /\ a = UnmarshalAttributes(DetailOn)
                 => m = [k \in {"switch", "level"} |-> IF k = "switch" THEN 1 ELSE 42]

\* The attributes {switch: "on", level: 42, flag: true} have been cached.
C9_Witness ==
  \E t \in Threads :
    /\ Normalized(t)
    /\ detail[t] = UnmarshalAttributes(DetailOn)
    /\ DOMAIN maps[dev[d[t]].attributes] = {"switch", "level"}

\* C11: no step of Device.Call, refused, failed or successful, changes the
\* device's attribute map or command set: Attributes and Attribute go on
\* returning what the last successful refresh installed.
C11_CallLeavesCacheUnchanged ==
  [][\A t \in Threads :
       /\ \A l \in Locs, cmd \in CallNames, args \in CallArgs :
            CallInvoke(t, l, cmd, args)
              => /\ DeviceView(d[t])' = DeviceView(l)
                 /\ maps'[dev'[d'[t]].attributes] = installed'[d'[t]]
       /\ \A status \in RespStatus :
            CallResponse(t, status)
              => /\ DeviceView(d[t])' = DeviceView(d[t])
                 /\ maps'[dev'[d'[t]].attributes] = installed'[d'[t]]]_vars

\* One call succeeded and one failed in the transport, on a device that has
\* cached attributes and commands.
C11_Witness ==
  \E t, u \in Threads :
    /\ CallReturned(t) /\ ret[t].err = ErrNone /\ gets[t] = 1
    /\ CallReturned(u) /\ ret[u].err = ErrNetwork
    /\ d[u] = d[t]
    /\ maps[dev[d[t]].attributes] # EmptyMap
    /\ dev[d[t]].Commands # <<>>

\* Thread t is inside the section guarded by the mutex of device l.
InGuarded(t, l) == pc[t] \in {"at_copy", "at_unlock", "a1_read", "dr_swap"} /\ d[t] = l

\* C12: a thread with a request in flight (inside Device.Refresh or
\* Device.Call) holds no Device mutex; a mutex is held only by a thread doing
\* the copy-out of Attributes/Attribute or the swap-in of Refresh.
C12_NoRequestUnderLock ==
  \A t \in Threads :
    /\ pc[t] \in {"dr_fetch", "call_wait"} => req[t] # <<>>
    /\ req[t] # <<>> => \A l \in Locs : dev[l].mu # t
    /\ \A l \in Locs : dev[l].mu = t => InGuarded(t, l)

\* A reader holds the mutex of a device while another thread's request for
\* that device is in flight.
C12_Witness ==
  \E t, u \in Threads :
    /\ pc[t] = "at_copy" /\ dev[d[t]].mu = t
    /\ pc[u] \in {"dr_fetch", "call_wait"} /\ op[u] \in {"DRefresh", "Call"}
    /\ d[u] = d[t] /\ req[u] # <<>>

\* C13: Device.Attribute returns the cached value of the key when the map
\* has it and 0 when it has not, never an error, and no step of it changes
\* the cached map: a missing key stays missing.
C13_AttributeReadsCache ==
  [][\A t \in Threads :
       /\ \A l \in Locs, name \in Keys :
            AttributeCall(t, l, name)
              => maps'[dev'[d'[t]].attributes] = maps[dev[l].attributes]
       /\ AttributeLock(t)
            => maps'[dev'[d'[t]].attributes] = maps[dev[d[t]].attributes]
       /\ AttributeReturn(t)
            => LET m == maps[dev[d[t]].attributes]
                   name == call[t].name
               IN /\ ret'[t] = [op |-> "Attribute", err |-> ErrNone,
                                val |-> IF name \in DOMAIN m THEN m[name] ELSE 0]
                  /\ maps'[dev'[d'[t]].attributes] = m]_vars

\* One call returned the non-zero value of a cached key and one returned 0
\* for a key the map does not hold.
C13_Witness ==
  \E t, u \in Threads :
    /\ pc[t] = "idle" /\ ret[t].op = "Attribute"
    /\ call[t].name \in DOMAIN maps[dev[d[t]].attributes]
    /\ ret[t].val = maps[dev[d[t]].attributes][call[t].name] /\ ret[t].val # 0
    /\ pc[u] = "idle" /\ ret[u].op = "Attribute"
    /\ call[u].name \notin DOMAIN maps[dev[d[u]].attributes]
    /\ ret[u].val = 0

\* C14: a Connect that fails, at GetToken, at GetEndPointsURI or in the
\* initial st.Refresh, returns with its error a SmartThings value that has no
\* client, no endpoint and no devices.
C14_FailedConnectReturnsNoSession ==
  \A t \in Threads :
    (pc[t] = "idle" /\ ret[t].op = "Connect" /\ ret[t].err # ErrNone)
      => ret[t].val = NoSession

\* C15: a Device.Call with a name of the command set and at most one argument
\* sends one GET, to the session's endpoint with the path /devices/{id}/{cmd}
\* followed by the argument as one more segment when there is one, and
\* returns what the transport returned: nil or its error.
C15_ValidCallIssuesOneGet ==
  [][\A t \in Threads :
       /\ \A l \in Locs, cmd \in CallNames, args \in CallArgs :
            (CallInvoke(t, l, cmd, args) /\ HasCommand(dev[l].Commands, cmd) /\ Len(args) <= 1)
              => /\ pc'[t] = "call_wait"
                 /\ gets'[t] = 1
                 /\ endpoint' = Endpoint
                 /\ req'[t] = IF Len(args) = 1
                              THEN <<"devices", dev[l].ID, cmd, ToString(args[1])>>
                              ELSE <<"devices", dev[l].ID, cmd>>
       /\ \A status \in RespStatus :
            CallResponse(t, status)
              => /\ ret'[t] = [op |-> "Call", err |-> status, val |-> 0]
                 /\ gets'[t] = 1
                 /\ req'[t] = <<>>]_vars

\* A call with one argument is in flight with a four-segment path while a
\* call without arguments has returned the transport's error.
C15_Witness ==
  \E t, u \in Threads :
    /\ pc[t] = "call_wait" /\ call[t].args = <<100>>
    /\ req[t] = <<"devices", "d1", "on", "100">>
    /\ CallReturned(u) /\ call[u].args = <<>> /\ ret[u].err = ErrNetwork /\ gets[u] = 1

\* C16: when a Device.Refresh returns nil, the cached map is exactly the
\* normalisation of the detail that call fetched: its keys are the detail's
\* keys of a handled type, so a key cached before and missing from, or of an
\* unhandled type in, the detail is gone.
C16_RefreshReplacesWholesale ==
  [][\A t \in Threads :
       (DRefreshSwap(t) /\ op[t] = "DRefresh")
         => LET a == detail[t]
                m == maps'[dev'[d'[t]].attributes]
            IN /\ ret'[t] = [op |-> "DRefresh", err |-> ErrNone, val |-> 0]
               /\ m = NormalizeAll(a)
               /\ DOMAIN m = {k \in DOMAIN a : a[k].type \in {"float64", "string"}}]_vars

\* A refresh has just returned nil on a device that was connected with the
\* keys switch and level: the map now holds flag alone, while another thread
\* is building a map with level alone.
C16_Witness ==
  \E t, u \in Threads :
    /\ pc[t] = "idle" /\ ret[t] = [op |-> "DRefresh", err |-> ErrNone, val |-> 0]
    /\ DOMAIN maps[dev[d[t]].attributes] = {"flag"}
    /\ pc[u] = "dr_swap" /\ d[u] = d[t] /\ DOMAIN maps[na[u]] = {"level"}

\* C17: the devices of a collection a caller read from st.Devices keep their
\* IDs, command sets and attribute maps through every step of a later
\* SmartThings.Refresh, and after it: Refresh works on new Device structs.
C17_HeldCollectionUntouched ==
  [][\A r \in Threads :
       (seen[r] # <<>> /\ ~ReadDevices(r))
         => DevicesView(seen[r])' = DevicesView(seen[r])]_vars

\* A caller holds the two devices it read before a SmartThings.Refresh that
\* has since returned nil with one device, in structs of its own.
C17_Witness ==
  \E r, t \in Threads :
    /\ Len(seen[r]) = 2
    /\ pc[t] = "idle" /\ ret[t].op = "SRefresh" /\ ret[t].err = ErrNone
    /\ Len(Devices) = 1
    /\ Range(seen[r]) \cap Range(Devices) = {}
    /\ DeviceView(seen[r][1]) # DeviceView(Devices[1])

\* C18: when GetDevices fails, on the transport or on the JSON, SmartThings.
\* Refresh returns that error having sent the list request alone, and
\* st.Devices holds the same devices as before the call.
C18_ListFailureKeepsDevices ==
  [][\A t \in Threads, status \in Failures :
       SRefreshListFail(t, status)
         => /\ ret'[t].err = status
            /\ gets'[t] = 1
            /\ req'[t] = <<>>
            /\ DevicesView(Devices)' = DevicesView(Devices)
            /\ DevicesView(Devices)' = DevicesView(before)]_vars

\* A SmartThings.Refresh of a session with two devices has returned a decode
\* error after its only request.
C18_Witness ==
  \E t \in Threads :
    /\ pc[t] = "idle" /\ ret[t].op = "SRefresh" /\ ret[t].err = ErrDecode
    /\ gets[t] = 1
    /\ Len(Devices) = 2

\* The IDs of a collection, in order.
DeviceIDs(devs) == [i \in 1..Len(devs) |-> dev[devs[i]].ID]

\* Device l has been through a successful Device.Refresh and holds the map
\* that refresh stored.
Populated(l) == dev[l].refreshed /\ maps[dev[l].attributes] = installed[l]

\* C19: when SmartThings.Refresh returns nil, st.Devices holds one Device per
\* summary of the list, in the list's order and with its IDs; and st.Devices
\* never holds a Device whose own Refresh has not succeeded.
C19_DevicesMatchSummaries ==
  /\ [](\A l \in Range(Devices) : Populated(l))
  /\ [][\A t \in Threads :
          SRefreshDone(t)
            => /\ ret'[t].err = ErrNone
               /\ DeviceIDs(Devices)' = all[t]
               /\ DeviceIDs(Devices) = all[t]]_vars

\* A SmartThings.Refresh has returned nil for the summaries d1, d2.
C19_Witness ==
  \E t \in Threads :
    /\ pc[t] = "idle" /\ ret[t].op = "SRefresh" /\ ret[t].err = ErrNone
    /\ DeviceIDs(Devices) = <<"d1", "d2">>
    /\ \A l \in Range(Devices) : Populated(l) /\ installed[l] # EmptyMap

\* Thread t is inside a Device.Refresh, Attributes or Attribute it was called for.
InDeviceOp(t) == pc[t] # "idle" /\ op[t] \in {"DRefresh", "Attributes", "Attribute"}

\* C20: of the threads that call Attributes, Attribute and Refresh on one
\* Device, at most one is inside the section guarded by d.mu; a thread whose
\* operation has returned, with or without an error, holds no mutex; and when
\* every request is answered, every operation returns.
C20_GuardExclusiveAndLive ==
  /\ [](\A t, u \in Threads, l \in Locs : (InGuarded(t, l) /\ InGuarded(u, l)) => t = u)
  /\ [](\A t \in Threads, l \in Locs : dev[l].mu = t => pc[t] # "idle")
  /\ \A t \in GuardThreads : InDeviceOp(t) ~> (pc[t] = "idle")

\* A reader waits for the mutex of a device while a Device.Refresh holds it
\* for the swap.
C20_Witness ==
  \E t, u \in Threads :
    /\ t # u
    /\ pc[t] \in {"at_lock", "a1_lock"}
    /\ pc[u] = "dr_swap" /\ op[u] = "DRefresh"
    /\ d[t] = d[u] /\ dev[d[u]].mu = u

====
